---- MODULE Spec2Model ----
(***************************************************************************)
(* A model of the event loop of term_emu_poc (src/main.rs): the PTY read   *)
(* phase, the keyboard phase with the PTY write retry loop, the resize     *)
(* handling, the frame renderer and the shutdown sequence.                 *)
(*                                                                         *)
(* The collaborators (PTY, parser/grid, curses window) are modelled at     *)
(* their call sites: the window dimensions, the PTY output that is         *)
(* available and the outcome of every read, write and getch call are       *)
(* chosen by the environment.                                              *)
(***************************************************************************)
EXTENDS Integers, Sequences, FiniteSets, TLC

(***************************************************************************)
(* Bounds of the model.                                                    *)
(***************************************************************************)
\* the window is between 3 and MaxWinX columns wide
MaxWinX == 4
\* the window is between 3 and MaxWinY lines high
MaxWinY == 3

(***************************************************************************)
(* Program constants.                                                      *)
(***************************************************************************)
OS_IO_ERROR == 5
\* buf = [0u8; 0x1000]
BufLen == 4096
\* border_chars = ['*', '+', '-']
border_chars == <<"*", "+", "-">>
\* the byte of ^D
CtrlD == 4

Min(a, b) == IF a < b THEN a ELSE b

(***************************************************************************)
(* Inputs the environment draws from.                                      *)
(***************************************************************************)
\* typed characters, as code points: ^D, 'a', U+0104 (2 bytes, the low
\* byte of the code point is 4), U+20AC (3 bytes)
Chars == {4, 97, 260, 8364}
\* io::ErrorKind values
ErrorKinds == {"Other", "Interrupted", "WouldBlock", "BrokenPipe"}
\* raw_os_error(): 0 stands for None, otherwise Some(code)
OsCodes == {0, 5, 11}
\* sizes of the bursts of output the child writes to the PTY
OutSizes == {1, BufLen + 1}
WinXs == 3..MaxWinX
WinYs == 3..MaxWinY
\* the foreground of a cell: Color::Named(_), Color::Spec(_), Color::Indexed(_)
ColorNamed == "Named"
ColorSpec == "Spec"
ColorIndexed == "Indexed"

\* the colour numbers of pancurses
COLOR_BLACK == 0
COLOR_RED == 1
COLOR_GREEN == 2
COLOR_YELLOW == 3
COLOR_BLUE == 4
COLOR_MAGENTA == 5
COLOR_CYAN == 6
COLOR_WHITE == 7

\* const COLOUR_INDEXES: [i16; 8]; entry i of the source is COLOUR_INDEXES[i + 1]
COLOUR_INDEXES ==
    <<COLOR_WHITE, COLOR_RED, COLOR_GREEN, COLOR_BLUE, COLOR_CYAN,
      COLOR_MAGENTA, COLOR_YELLOW, COLOR_BLACK>>

\* the variants of NamedColor the renderer matches on
NamedColors ==
    {"Background", "Black", "Blue", "BrightBlack", "BrightBlue", "BrightCyan",
     "BrightGreen", "BrightMagenta", "BrightRed", "BrightWhite",
     "BrightYellow", "Cursor", "CursorText", "Cyan", "DimBlack", "DimBlue",
     "DimCyan", "DimGreen", "DimMagenta", "DimRed", "DimWhite", "DimYellow",
     "Foreground", "Green", "Magenta", "Red", "White", "Yellow"}

\* the inputs other than characters and resizes that getch can return, by
\* their Debug names
OtherInputs == <<"KeyDown", "KeyF1">>

VARIABLES
    pc,              \* position of main: "read", "getch", "write", "endwin", "print", "exited"
    exit_reason,     \* Option<String>: <<>> is None, <<s>> is Some(s)
    cur_border_char, \* index into border_chars, 0-based as in the source
    term,            \* the grid model: [cols, lines, cursor, bad]
    ptySize,         \* the geometry the PTY was last given
    winx, winy,      \* what win.get_max_yx() returns
    ptyAvail,        \* bytes of PTY output waiting to be read
    resizePending,   \* a KeyResize event waits in the window's input queue
    rd,              \* outcome of this iteration's PTY read
    fed,             \* bytes passed to parser.advance in this iteration
    unread,          \* output that was available at the read and was left in the PTY
    key,             \* the input this iteration's getch returned
    bytes,           \* the encoded character being forwarded
    i,               \* the write loop's counter
    sent,            \* the bytes the PTY accepted for the current character
    wr,              \* outcome of the last PTY write call
    hist,            \* the border index before each of the last three ^D presses
    frame,           \* what the render call of the last phase did
    renders,         \* render calls in this iteration
    termRecv,        \* geometries term.resize received in this iteration
    ptyRecv,         \* geometries pty.resize received in this iteration
    seenYX,          \* the (y, x) the resize handler of this iteration read
    endwins,         \* calls of endwin
    out,             \* lines printed to standard output
    dirty,           \* the change of the shown state made since the last render call
    pairs,           \* the colour pairs registered with init_pair: pairs[i + 1] is pair i
    ink,             \* the named colour of the grid cell being painted
    applied          \* the pair attrset was given for that cell: <<>> or <<pair>>

vars == <<pc, exit_reason, cur_border_char, term, ptySize, winx, winy, ptyAvail,
          resizePending, rd, fed, unread, key, bytes, i, sent, wr, hist,
          frame, renders, termRecv, ptyRecv, seenYX, endwins, out, dirty,
          pairs, ink, applied>>

\* the variables of the colour path
paletteVars == <<pairs, ink, applied>>

(***************************************************************************)
(* Pure helpers.                                                           *)
(***************************************************************************)
\* char::len_utf8
len_utf8(c) ==
    IF c < 128 THEN 1
    ELSE IF c < 2048 THEN 2
    ELSE IF c < 65536 THEN 3
    ELSE 4

\* char::encode_utf8 into a buffer of len_utf8(c) bytes
encode_utf8(c) ==
    IF c < 128 THEN <<c>>
    ELSE IF c < 2048 THEN <<192 + (c \div 64), 128 + (c % 64)>>
    ELSE IF c < 65536 THEN
        <<224 + (c \div 4096), 128 + ((c \div 64) % 64), 128 + (c % 64)>>
    ELSE
        <<240 + (c \div 262144), 128 + ((c \div 4096) % 64),
          128 + ((c \div 64) % 64), 128 + (c % 64)>>

\* new_size_info with its two arguments exchanged
new_size_info_swapped(w, h) ==
    [width |-> h, height |-> w, cell_width |-> 1, cell_height |-> 1,
     padding_x |-> 0, padding_y |-> 0]

\* fn new_size_info(w, h) -> SizeInfo
new_size_info(w, h) ==
    [width |-> w, height |-> h, cell_width |-> 1, cell_height |-> 1,
     padding_x |-> 0, padding_y |-> 0]

\* the columns and lines a SizeInfo describes
SizeCols(size) == (size.width - 2 * size.padding_x) \div size.cell_width
SizeLines(size) == (size.height - 2 * size.padding_y) \div size.cell_height

Positions(lines, cols) == (0..(lines - 1)) \X (0..(cols - 1))

\* the first and the last cell of the grid in row-major order: the places
\* the model lets the cursor and a cell of an unsupported colour be at
Corners(lines, cols) ==
    {p \in Positions(lines, cols) :
        p = <<0, 0>> \/ p = <<lines - 1, cols - 1>>}

\* The grid model, as far as main and the renderer read it: its dimensions,
\* the cursor, and the first cell in row-major order whose foreground is not
\* a named colour (bad = <<>> when every cell has a named colour, otherwise
\* <<line, column, colour>>); the cells before that one have named colours.
Terms(lines, cols) ==
    [cols : {cols}, lines : {lines}, cursor : Corners(lines, cols),
     bad : {<<>>} \cup {<<p[1], p[2], f>> : p \in Corners(lines, cols),
                                           f \in {ColorSpec, ColorIndexed}}]

\* Term::new(&conf, size): an empty grid of the size's dimensions
NewTerm(size) ==
    [cols |-> SizeCols(size), lines |-> SizeLines(size), cursor |-> <<0, 0>>,
     bad |-> <<>>]

\* grid[line][col].fg
CellFg(t, line, col) ==
    IF t.bad # <<>> /\ t.bad[1] = line /\ t.bad[2] = col THEN t.bad[3]
    ELSE ColorNamed

\* term.resize(&size): the grid takes the new dimensions; the library may
\* rewrap lines and bring lines of its history into view, so cells that no
\* render has met can become visible and the cursor can move: any grid of
\* the new dimensions can result
TermResize(t, size) == Terms(SizeLines(size), SizeCols(size))

\* for byte in &buf[..n] { parser.advance(&mut term, *byte, &mut ptyf) }:
\* the bytes may print, recolour, clear and move the cursor, so any grid of
\* the same dimensions can result
FeedSet(t, n) == IF n = 0 THEN {t} ELSE Terms(t.lines, t.cols)

\* the cell loop of render_term_to_win, cell k in row-major order
RECURSIVE RenderWalk(_, _, _)
RenderWalk(t, k, acc) ==
    IF k >= t.lines * t.cols THEN [painted |-> acc, result |-> "Ok"]
    ELSE LET line == k \div t.cols
             col == k % t.cols
             fg == CellFg(t, line, col)
         IN  IF fg = ColorNamed
             THEN RenderWalk(t, k + 1, acc \cup {<<line + 1, col + 1>>})
             ELSE IF fg = ColorSpec
             THEN [painted |-> acc, result |-> "ColourSpecFound"]
             ELSE [painted |-> acc, result |-> "ColourIndexFound"]

\* the match on the NamedColor of a cell (lines 248-277)
NameColour(name) ==
    CASE name \in {"Background", "Black", "BrightBlack", "Cursor", "DimBlack"}
            -> COLOR_BLACK
      [] name \in {"Blue", "BrightBlue", "DimBlue"} -> COLOR_BLUE
      [] name \in {"Cyan", "BrightCyan", "DimCyan"} -> COLOR_CYAN
      [] name \in {"Green", "BrightGreen", "DimGreen"} -> COLOR_GREEN
      [] name \in {"Magenta", "BrightMagenta", "DimMagenta"} -> COLOR_MAGENTA
      [] name \in {"Red", "BrightRed", "DimRed"} -> COLOR_RED
      [] name \in {"White", "BrightWhite", "DimWhite", "CursorText",
                   "Foreground"} -> COLOR_WHITE
      [] name \in {"Yellow", "BrightYellow", "DimYellow"} -> COLOR_YELLOW

\* for i in from..last { if c == COLOUR_INDEXES[i] { return i } } 0
RECURSIVE ColourSearch(_, _, _)
ColourSearch(c, k, last) ==
    IF k > last THEN 0
    ELSE IF c = COLOUR_INDEXES[k + 1] THEN k
    ELSE ColourSearch(c, k + 1, last)

\* the search running over the last entry of the table as well
get_colour_index_to_end(c) == ColourSearch(c, 1, Len(COLOUR_INDEXES) - 1)

\* fn get_colour_index(c) -> usize: the search runs over 1..len - 1, that is
\* over the entries 1 to 6
get_colour_index(c) == ColourSearch(c, 1, Len(COLOUR_INDEXES) - 2)

\* ColorPair(get_colour_index(c) as u8)
ColorPair(index) == index % 256

\* init_pair registering the entry after the one of its index
init_pair_shifted(k) == [fg |-> COLOUR_INDEXES[k + 2], bg |-> COLOR_BLACK]

\* pancurses::init_pair(i as i16, COLOUR_INDEXES[i], pancurses::COLOR_BLACK)
init_pair(k) == [fg |-> COLOUR_INDEXES[k + 1], bg |-> COLOR_BLACK]

\* the pairs the loop of lines 42-44 has registered: i in 0..len - 1
RegisteredPairs == [k \in 1..(Len(COLOUR_INDEXES) - 1) |-> init_pair(k - 1)]

\* no render call was made
NoFrame ==
    [y |-> 0, x |-> 0, ch |-> "", lines |-> 0, cols |-> 0, painted |-> {},
     cursor |-> <<>>, flushed |-> FALSE, result |-> "None"]

\* fn render_term_to_win(term, win, border_char) -> RenderResult, with the
\* window dimensions (y, x) it reads from win.get_max_yx(): the border is
\* drawn for (y, x), the cells are painted at (line + 1, col + 1) up to the
\* first cell that is not a named colour, and only a complete walk moves the
\* cursor and refreshes
render_term_to_win(t, y, x, ch) ==
    LET w == RenderWalk(t, 0, {})
    IN  [y |-> y, x |-> x, ch |-> ch, lines |-> t.lines, cols |-> t.cols,
         painted |-> w.painted,
         cursor |-> IF w.result = "Ok"
                    THEN <<t.cursor[1] + 1, t.cursor[2] + 1>> ELSE <<>>,
         flushed |-> (w.result = "Ok"), result |-> w.result]

\* the two colour categories named in each other's place
ColourReasonSwapped(result) ==
    IF result = "ColourSpecFound"
    THEN "encountered a colour index, which isn't currently supported"
    ELSE "encountered a colour specification, which isn't currently supported"

\* the exit reason main records for a render error
ColourReason(result) ==
    IF result = "ColourSpecFound"
    THEN "encountered a colour specification, which isn't currently supported"
    ELSE "encountered a colour index, which isn't currently supported"

\* a read loop without the Ok(0) arm
IsEofNever(o) == FALSE

\* the match arm Ok(0)
IsEof(o) == o.tag = "Ok" /\ o.n = 0

\* the whole buffer handed to the parser: &buf[..]
FedWholeBuffer(n) == BufLen

\* the bytes handed to the parser: &buf[..n]
FedBytes(n) == n

\* the child-exit test written against EAGAIN (11) instead of EIO (5)
IsChildExitWrongCode(kind, code) == kind = "Other" /\ code = 11

\* k == ErrorKind::Other && e.raw_os_error() == Some(OS_IO_ERROR)
IsChildExit(kind, code) == kind = "Other" /\ code = OS_IO_ERROR

\* a read phase that gives up on every error
ReadErrFatalAlways(kind) == TRUE

\* k != ErrorKind::Interrupted && k != ErrorKind::WouldBlock, on a read
ReadErrFatal(kind) == kind # "Interrupted" /\ kind # "WouldBlock"

\* a write loop that gives up on the kind Other only
WriteErrFatalOnlyOther(kind) == kind = "Other"

\* a write loop that retries on every error
WriteErrNeverFatal(kind) == FALSE

\* k != ErrorKind::Interrupted && k != ErrorKind::WouldBlock, on a write
WriteErrFatal(kind) == kind # "Interrupted" /\ kind # "WouldBlock"

\* a loop without the ^D branch
IsBorderToggleNever(bs) == FALSE

\* utf8_len == 1 && bytes[0] == 4
IsBorderToggle(bs) == Len(bs) = 1 /\ bs[1] = CtrlD

\* the border index stopping at the last style instead of wrapping
NextBorderSaturating(cur) ==
    IF cur + 1 < Len(border_chars) THEN cur + 1 ELSE cur

\* (cur_border_char + 1) % border_chars.len()
NextBorder(cur) == (cur + 1) % Len(border_chars)

\* the slice handed to ptyf.write: &bytes[..]
Offered(bs, sentSoFar) == bs

\* ptyf.read(&mut buf[..]): what a read returns when avail bytes wait
ReadLen(avail) == Min(avail, BufLen)

NoIo == [tag |-> "None", n |-> 0, kind |-> "", code |-> 0]
IoOk(n) == [tag |-> "Ok", n |-> n, kind |-> "", code |-> 0]
IoErr(kind, code) == [tag |-> "Err", n |-> 0, kind |-> kind, code |-> code]

ReadOutcomes(avail) ==
    {IoOk(ReadLen(avail))} \cup
    {IoErr(k, c) : k \in ErrorKinds, c \in OsCodes}

\* a write call accepts between 0 and all of the offered bytes, or fails
WriteOutcomes(offered) ==
    {IoOk(n) : n \in 0..Len(offered)} \cup {IoErr(k, 0) : k \in ErrorKinds}

NoKey == [t |-> "None", c |-> 0]
KeyChar(c) == [t |-> "Character", c |-> c]
KeyResize == [t |-> "KeyResize", c |-> 0]
\* any other Input; c is its position in OtherInputs
KeyOther(c) == [t |-> "KeyOther", c |-> c]

Inputs(pending) ==
    {NoKey} \cup {KeyOther(c) : c \in DOMAIN OtherInputs} \cup
    {KeyChar(c) : c \in Chars} \cup
    (IF pending THEN {KeyResize} ELSE {})

\* a reason that leaves the input out
UnhandledReasonGeneric(input) == "unhandled input"

\* format!("unhandled input: {:?}", input)
UnhandledReason(input) ==
    IF OtherInputs[input.c] = "KeyDown" THEN "unhandled input: KeyDown"
    ELSE "unhandled input: KeyF1"

Running == pc \in {"read", "getch", "write"}
Terminated == pc \in {"endwin", "print", "exited"}

(***************************************************************************)
(* The state after the setup of main (lines 29-74).                        *)
(***************************************************************************)
\* the variables of the loop after lines 51-74
LoopInit ==
    /\ winx \in WinXs
    /\ winy \in WinYs
    /\ term = NewTerm(new_size_info(winx - 2, winy - 2))
    /\ ptySize = new_size_info(winx - 2, winy - 2)
    /\ cur_border_char = 0
    /\ exit_reason = <<>>
    /\ pc = "read"
    /\ ptyAvail = 0
    /\ resizePending = FALSE
    /\ rd = NoIo
    /\ fed = 0
    /\ unread = 0
    /\ key = NoKey
    /\ bytes = <<>>
    /\ i = 0
    /\ sent = <<>>
    /\ wr = NoIo
    /\ hist = <<>>
    /\ frame = NoFrame
    /\ renders = 0
    /\ termRecv = <<>>
    /\ ptyRecv = <<>>
    /\ seenYX = <<>>
    /\ endwins = 0
    /\ out = <<>>
    /\ dirty = "none"

Init ==
    /\ LoopInit
    /\ pairs = RegisteredPairs
    /\ ink = "Foreground"
    /\ applied = <<>>

(***************************************************************************)
(* The operations of the event loop.                                       *)
(***************************************************************************)
\* recording the reason without leaving the loop
LeaveLoopContinue(reason) ==
    /\ exit_reason' = reason
    /\ pc' = "read"

\* leaving the loop past the endwin call
LeaveLoopSkipEndwin(reason) ==
    /\ exit_reason' = reason
    /\ pc' = "print"

\* exit_reason = ...; break 'evt_loop (the reason <<>> leaves it None)
LeaveLoop(reason) ==
    /\ exit_reason' = reason
    /\ pc' = "endwin"

\* a loop body that reads the keyboard again instead of starting the next
\* iteration
GoOnDrain(next) ==
    /\ pc' = IF next = "read" THEN "getch" ELSE next
    /\ UNCHANGED exit_reason

\* falling through to the next statement of the loop body
GoOn(next) ==
    /\ pc' = next
    /\ UNCHANGED exit_reason

\* the handler going on without its render call
RenderThenSkipped(t, cur, count, next) ==
    /\ frame' = NoFrame
    /\ renders' = count
    /\ dirty' = "unrendered"
    /\ GoOn(next)

\* the render call of lines 87-99 and 135-147 and the match on its result;
\* count is the number of render calls this iteration made before it
RenderThen(t, cur, count, next) ==
    /\ frame' = render_term_to_win(t, winy, winx, border_chars[cur + 1])
    /\ renders' = count + 1
    /\ dirty' = "none"
    /\ IF frame'.result # "Ok"
       THEN LeaveLoop(<<ColourReason(frame'.result)>>)
       ELSE GoOn(next)

\* a phase that makes no render call
NoRender(count) ==
    /\ frame' = NoFrame
    /\ renders' = count

\* lines 78-120: one PTY read and what main does with its result
ReadPhase ==
    /\ pc = "read"
    /\ \E o \in ReadOutcomes(ptyAvail) :
        /\ rd' = o
        /\ IF IsEof(o) THEN
                /\ LeaveLoop(<<>>)
                /\ fed' = 0
                /\ NoRender(0)
                /\ UNCHANGED <<term, ptyAvail, dirty>>
           ELSE IF o.tag = "Ok" THEN
                /\ term' \in FeedSet(term, FedBytes(o.n))
                /\ fed' = FedBytes(o.n)
                /\ ptyAvail' = ptyAvail - o.n
                /\ RenderThen(term', cur_border_char, 0, "getch")
           ELSE
                /\ fed' = 0
                /\ NoRender(0)
                /\ UNCHANGED <<term, ptyAvail, dirty>>
                /\ IF IsChildExit(o.kind, o.code) THEN LeaveLoop(<<>>)
                   ELSE IF ReadErrFatal(o.kind)
                   THEN LeaveLoop(<<"couldn't read from PTY">>)
                   ELSE GoOn("getch")
    /\ unread' = ptyAvail'
    /\ key' = NoKey /\ bytes' = <<>> /\ i' = 0 /\ sent' = <<>> /\ wr' = NoIo
    /\ termRecv' = <<>> /\ ptyRecv' = <<>> /\ seenYX' = <<>>
    /\ UNCHANGED <<cur_border_char, ptySize, winx, winy, resizePending, hist,
                   endwins, out, paletteVars>>

\* lines 122-148 and 175-186: one getch and the dispatch on the input; a
\* character other than ^D enters the write loop of lines 149-172
KeyPhase ==
    /\ pc = "getch"
    /\ \E input \in Inputs(resizePending) :
        /\ key' = input
        /\ IF input.t = "None" THEN
                /\ GoOn("read")
                /\ NoRender(renders)
                /\ UNCHANGED <<cur_border_char, term, ptySize, resizePending,
                               bytes, hist, termRecv, ptyRecv, seenYX, dirty>>
           ELSE IF input.t = "Character" THEN
                /\ bytes' = encode_utf8(input.c)
                /\ UNCHANGED <<term, ptySize, resizePending, termRecv, ptyRecv,
                               seenYX>>
                /\ IF IsBorderToggle(bytes') THEN
                        /\ cur_border_char' = NextBorder(cur_border_char)
                        /\ hist' = IF Len(hist) < Len(border_chars)
                                   THEN Append(hist, cur_border_char)
                                   ELSE Append(Tail(hist), cur_border_char)
                        /\ RenderThen(term, cur_border_char', renders, "read")
                   ELSE
                        /\ GoOn(IF 0 < Len(bytes') THEN "write" ELSE "read")
                        /\ NoRender(renders)
                        /\ UNCHANGED <<cur_border_char, hist, dirty>>
           ELSE IF input.t = "KeyResize" THEN
                /\ LET size == new_size_info(winx - 2, winy - 2)
                   IN  /\ term' \in TermResize(term, size)
                       /\ ptySize' = size
                       /\ termRecv' = Append(termRecv, size)
                       /\ ptyRecv' = Append(ptyRecv, size)
                /\ seenYX' = <<winy, winx>>
                /\ resizePending' = FALSE
                /\ dirty' = "resize"
                /\ GoOn("read")
                /\ NoRender(renders)
                /\ UNCHANGED <<cur_border_char, bytes, hist>>
           ELSE
                /\ LeaveLoop(<<UnhandledReason(input)>>)
                /\ NoRender(renders)
                /\ UNCHANGED <<cur_border_char, term, ptySize, resizePending,
                               bytes, hist, termRecv, ptyRecv, seenYX, dirty>>
    /\ rd' = NoIo /\ fed' = 0 /\ unread' = 0
    /\ i' = 0 /\ sent' = <<>> /\ wr' = NoIo
    /\ UNCHANGED <<winx, winy, ptyAvail, endwins, out, paletteVars>>

\* lines 150-172: one pass of the write loop, entered with i < utf8_len
WriteCall ==
    /\ pc = "write"
    /\ i < Len(bytes)
    /\ \E o \in WriteOutcomes(Offered(bytes, i)) :
        /\ wr' = o
        /\ IF o.tag = "Ok" /\ o.n = 0 THEN
                /\ LeaveLoop(<<"PTY is unable to accept bytes">>)
                /\ UNCHANGED <<i, sent>>
           ELSE IF o.tag = "Ok" THEN
                /\ i' = i + o.n
                /\ sent' = sent \o SubSeq(Offered(bytes, i), 1, o.n)
                /\ GoOn(IF i' < Len(bytes) THEN "write" ELSE "read")
           ELSE IF WriteErrFatal(o.kind) THEN
                /\ LeaveLoop(<<"couldn't read from PTY">>)
                /\ UNCHANGED <<i, sent>>
           ELSE
                /\ GoOn("write")
                /\ UNCHANGED <<i, sent>>
    /\ UNCHANGED <<cur_border_char, term, ptySize, winx, winy, ptyAvail,
                   resizePending, rd, fed, unread, key, bytes, hist, frame,
                   renders, termRecv, ptyRecv, seenYX, endwins, out, dirty,
                   paletteVars>>

\* line 189: pancurses::endwin()
Endwin ==
    /\ pc = "endwin"
    /\ endwins' = endwins + 1
    /\ pc' = "print"
    /\ UNCHANGED <<exit_reason, cur_border_char, term, ptySize, winx, winy,
                   ptyAvail, resizePending, rd, fed, unread, key, bytes, i, sent,
                   wr, hist, frame, renders, termRecv, ptyRecv, seenYX, out,
                   dirty, paletteVars>>

\* lines 191-193: if let Some(s) = exit_reason { println!(...) }
PrintReason ==
    /\ pc = "print"
    /\ out' = IF exit_reason # <<>>
              THEN Append(out, <<"process exited: ", exit_reason[1]>>)
              ELSE out
    /\ pc' = "exited"
    /\ UNCHANGED <<exit_reason, cur_border_char, term, ptySize, winx, winy,
                   ptyAvail, resizePending, rd, fed, unread, key, bytes, i, sent,
                   wr, hist, frame, renders, termRecv, ptyRecv, seenYX, endwins,
                   dirty, paletteVars>>

(***************************************************************************)
(* The environment.                                                        *)
(***************************************************************************)
\* the child writes a burst of output once the previous one was read
PtyOutput ==
    /\ Running
    /\ ptyAvail = 0
    /\ ptyAvail' \in OutSizes
    /\ UNCHANGED <<pc, exit_reason, cur_border_char, term, ptySize, winx, winy,
                   resizePending, rd, fed, unread, key, bytes, i, sent, wr,
                   hist, frame, renders, termRecv, ptyRecv, seenYX, endwins,
                   out, dirty, paletteVars>>

\* the host window changes its size; a KeyResize event is queued
WinResize ==
    /\ Running
    /\ \E x \in WinXs, y \in WinYs :
        /\ <<x, y>> # <<winx, winy>>
        /\ winx' = x
        /\ winy' = y
    /\ resizePending' = TRUE
    /\ UNCHANGED <<pc, exit_reason, cur_border_char, term, ptySize, ptyAvail,
                   rd, fed, unread, key, bytes, i, sent, wr, hist, frame,
                   renders, termRecv, ptyRecv, seenYX, endwins, out, dirty,
                   paletteVars>>

\* the steps of main
Step == ReadPhase \/ KeyPhase \/ WriteCall \/ Endwin \/ PrintReason

Next ==
    \/ ReadPhase
    \/ KeyPhase
    \/ WriteCall
    \/ Endwin
    \/ PrintReason
    \/ PtyOutput
    \/ WinResize

Spec == Init /\ [][Next]_vars

\* main is the only thread and keeps running: its next step is always taken
FairSpec == Spec /\ WF_vars(Step)

(***************************************************************************)
(* The colour path: the registration loop of the setup (lines 42-44) and   *)
(* the pair the renderer applies to a cell of a named colour (lines        *)
(* 247-278).  The cell's colour is drawn at the start; the variables of    *)
(* the loop hold the values the setup gives them.                          *)
(***************************************************************************)
loopVars ==
    <<pc, exit_reason, cur_border_char, term, ptySize, winx, winy, ptyAvail,
      resizePending, rd, fed, unread, key, bytes, i, sent, wr, hist, frame,
      renders, termRecv, ptyRecv, seenYX, endwins, out, dirty>>

PaletteInit ==
    /\ LoopInit
    /\ pairs = <<>>
    /\ ink \in NamedColors
    /\ applied = <<>>

\* one pass of for i in 0..COLOUR_INDEXES.len()-1 { init_pair(...) }
InitPairStep ==
    /\ Len(pairs) < Len(COLOUR_INDEXES) - 1
    /\ pairs' = Append(pairs, init_pair(Len(pairs)))
    /\ UNCHANGED <<ink, applied, loopVars>>

\* line 278, reached from a render call of the loop, after the setup:
\* win.attrset(ColorPair(get_colour_index(c) as u8)) for a cell named ink
AttrSet ==
    /\ Len(pairs) = Len(COLOUR_INDEXES) - 1
    /\ applied = <<>>
    /\ applied' = <<ColorPair(get_colour_index(NameColour(ink)))>>
    /\ UNCHANGED <<pairs, ink, loopVars>>

PaletteNext == InitPairStep \/ AttrSet

PaletteSpec == PaletteInit /\ [][PaletteNext]_vars

(***************************************************************************)
(* Properties of the event loop, numbered C1, C2, ...                      *)
(***************************************************************************)
\* the write loop of this iteration has ended with every call accepted
Forwarded ==
    /\ pc = "read"
    /\ key.t = "Character"
    /\ ~IsBorderToggle(bytes)

\* C1: when a typed character other than ^D has been forwarded, the number
\* of bytes the PTY accepted for it equals its UTF-8 length, for a writer
\* that accepts any k >= 1 of the offered bytes per call.
C1_AcceptedCountIsLength == Forwarded => Len(sent) = len_utf8(key.c)

\* C2: when a typed character has been forwarded through a writer that may
\* accept fewer bytes than offered, the bytes the PTY accepted are exactly
\* the character's encoded bytes, each once and in order.
C2_AcceptedBytesAreEncoding == Forwarded => sent = encode_utf8(key.c)

\* the read of this iteration returned data and the keyboard is next
ReadDone == pc = "getch" /\ rd.tag = "Ok"

\* C3 as stated: all the output that was available at the start of the
\* iteration is read, fed and rendered before the iteration's keyboard
\* event is processed, however much there is.
C3_AllAvailableDrained ==
    ReadDone =>
        /\ unread = 0
        /\ fed = rd.n
        /\ renders = 1 /\ frame.flushed

\* C3 as amended: the bytes returned by the iteration's one read, at most
\* one 4096-byte chunk of the available output, are fed and rendered before
\* the keyboard event is processed; the output beyond that chunk stays
\* unread in that iteration.
C3_OneChunkDrained ==
    ReadDone =>
        /\ fed = rd.n
        /\ fed = Min(fed + unread, BufLen)
        /\ renders = 1 /\ frame.flushed /\ frame.result = "Ok"
        /\ key = NoKey

C3_Witness == ReadDone /\ unread > 0 /\ fed = BufLen

\* the writer reported would-block or interrupted to the running write loop
WriteRetrying ==
    pc = "write" /\ wr.tag = "Err" /\ wr.kind \in {"Interrupted", "WouldBlock"}

\* C4 as stated: from every running state the loop eventually starts the
\* next PTY read attempt or terminates, also while the writer keeps
\* reporting would-block or interrupted.
C4_NeverBlocks == (pc \in {"getch", "write"}) ~> (pc = "read" \/ Terminated)

\* C4 as amended: from every running state the loop eventually starts the
\* next PTY read attempt or terminates, unless from some point on the PTY
\* writer reports would-block or interrupted on every call.
C4_BlocksOnlyOnWriter ==
    C4_NeverBlocks \/ <>[]WriteRetrying

C4_Witness == WriteRetrying /\ i > 0

\* C5: three presses of ^D return the border style to the value it had
\* before them, the border index stays within 0..2, and no byte 4 typed at
\* the keyboard is written to the PTY.
C5_BorderCyclic ==
    /\ cur_border_char \in 0..(Len(border_chars) - 1)
    /\ Len(hist) = Len(border_chars) => cur_border_char = hist[1]
    /\ \A k \in 1..Len(sent) : sent[k] # CtrlD
    /\ key = KeyChar(CtrlD) => pc # "write" /\ wr = NoIo

C5_Witness ==
    /\ Len(hist) = Len(border_chars)
    /\ key = KeyChar(CtrlD)
    /\ cur_border_char = 1

\* C6: a PTY read that returns zero bytes terminates the loop with an empty
\* exit reason; no keyboard read, PTY write or render follows it and nothing
\* is printed.
C6_EofIsCleanExit ==
    rd = IoOk(0) =>
        /\ Terminated
        /\ exit_reason = <<>>
        /\ out = <<>>
        /\ key = NoKey /\ wr = NoIo /\ sent = <<>>
        /\ renders = 0 /\ frame = NoFrame

C6_Witness == rd = IoOk(0) /\ pc = "exited"

C8_EndwinOncePrintIffReason ==
    /\ pc \in {"read", "getch", "write", "endwin"} => endwins = 0 /\ out = <<>>
    /\ pc = "print" => endwins = 1 /\ out = <<>>
    /\ pc = "exited" =>
        /\ endwins = 1
        /\ exit_reason = <<>> => out = <<>>
        /\ exit_reason # <<>> => out = <<<<"process exited: ", exit_reason[1]>>>>

C8_Witness ==
    /\ pc = "exited"
    /\ endwins = 1
    /\ exit_reason = <<"PTY is unable to accept bytes">>
    /\ Len(out) = 1

\* C9: at every render every painted grid cell and the cursor lie inside
\* the interior of the window as the renderer reads it: the grid has at most
\* x - 2 columns and y - 2 lines.
C9_RenderInsideInterior ==
    frame.result # "None" =>
        /\ frame.cols <= frame.x - 2
        /\ frame.lines <= frame.y - 2
        /\ \A p \in (frame.painted \cup {frame.cursor}) \ {<<>>} :
            /\ 1 <= p[1] /\ p[1] <= frame.y - 2
            /\ 1 <= p[2] /\ p[2] <= frame.x - 2

\* C10: a resize event consumed with window dimensions (x, y), x, y >= 3,
\* gives the geometry width x - 2, height y - 2 (both >= 1, unit cells, no
\* padding) to the grid and to the PTY exactly once each, and at every
\* iteration boundary the grid's geometry is the PTY's geometry.
C10_ResizeReachesBothOnce ==
    /\ pc = "read" =>
        /\ term.cols = SizeCols(ptySize)
        /\ term.lines = SizeLines(ptySize)
    /\ (key = KeyResize /\ seenYX[1] >= 3 /\ seenYX[2] >= 3) =>
        LET g == [width |-> seenYX[2] - 2, height |-> seenYX[1] - 2,
                  cell_width |-> 1, cell_height |-> 1,
                  padding_x |-> 0, padding_y |-> 0]
        IN  /\ g.width >= 1 /\ g.height >= 1
            /\ termRecv = <<g>>
            /\ ptyRecv = <<g>>
            /\ ptySize = g
            /\ term.cols = g.width /\ term.lines = g.height

C10_Witness ==
    /\ key = KeyResize
    /\ pc = "read"
    /\ seenYX = <<3, 4>>
    /\ termRecv # <<>>

\* C11: a render that meets a grid cell whose foreground is a full colour
\* specification (an indexed colour) returns the matching error without
\* painting that cell, repositioning the cursor or flushing, and the loop
\* terminates with the exit reason naming that category; this holds for the
\* render after a PTY read and for the render after the ^D keystroke.
C11_ColourErrorEndsLoop ==
    (frame.result # "None" /\ term.bad # <<>>) =>
        /\ frame.result = (IF term.bad[3] = ColorSpec THEN "ColourSpecFound"
                           ELSE "ColourIndexFound")
        /\ <<term.bad[1] + 1, term.bad[2] + 1>> \notin frame.painted
        /\ frame.cursor = <<>>
        /\ ~frame.flushed
        /\ Terminated
        /\ exit_reason =
            <<IF term.bad[3] = ColorSpec
              THEN "encountered a colour specification, which isn't currently supported"
              ELSE "encountered a colour index, which isn't currently supported">>
        /\ IF key = KeyChar(CtrlD) THEN rd = NoIo
           ELSE key = NoKey /\ rd.tag = "Ok" /\ rd.n > 0

C11_Witness ==
    /\ key = KeyChar(CtrlD)
    /\ frame.result = "ColourIndexFound"
    /\ pc = "exited"

\* the entries of the palette table that hold the colour c, as indices of
\* the source
TableIndexes(c, from, to) == {k \in from..to : COLOUR_INDEXES[k + 1] = c}

LeastOf(S) == CHOOSE k \in S : \A m \in S : k <= m

\* C12 as stated: for every colour of the palette table the reducer returns
\* the first index of the table that holds the colour, and 0 otherwise.
C12_FirstIndexOfTable ==
    applied # <<>> =>
        LET found == TableIndexes(NameColour(ink), 0, 7)
        IN  applied[1] = (IF found = {} THEN 0 ELSE LeastOf(found))

\* C12 as amended: for every colour of the palette table the reducer
\* returns the first index among the entries 1 to 6 that holds the colour,
\* and returns 0 for the colours that none of these entries holds: white,
\* held by entry 0, and black, held by the unused entry 7.
C12_FirstIndexOfSearchedEntries ==
    applied # <<>> =>
        LET c == NameColour(ink)
            found == TableIndexes(c, 1, 6)
        IN  /\ TableIndexes(c, 0, 7) # {}
            /\ IF found # {} THEN applied[1] = LeastOf(found)
               ELSE applied[1] = 0 /\ c \in {COLOR_WHITE, COLOR_BLACK}

C12_Witness == applied = <<0>> /\ ink = "Black"

\* C13 as stated: after every event that changes the state shown on screen,
\* a resize included, the renderer is invoked before the next event is
\* processed: no keyboard event is consumed while a change is unrendered.
C13_RenderBeforeNextEvent ==
    [][(pc = "getch" /\ key' # NoKey) => dirty = "none"]_vars

\* C13 as amended: the handler of a PTY read that returned data and the
\* handler of a border-style change invoke the renderer on the changed state
\* before the next event is processed; the handler of a resize changes the
\* geometry without a render, and the change stays unrendered until the next
\* such render.
C13_RenderAfterOutputAndToggle ==
    [][/\ (pc = "read" /\ fed' > 0) =>
            /\ frame' # NoFrame
            /\ frame'.lines = term'.lines /\ frame'.cols = term'.cols
            /\ dirty' = "none"
       /\ cur_border_char' # cur_border_char =>
            /\ frame' # NoFrame
            /\ frame'.ch = border_chars[cur_border_char' + 1]
            /\ dirty' = "none"
       /\ (pc = "getch" /\ key' = KeyResize) =>
            /\ frame' = NoFrame
            /\ renders' = renders
            /\ dirty' = "resize"
       /\ (dirty = "resize" /\ frame' = NoFrame) => dirty' = "resize"]_vars

C13_Witness ==
    /\ pc = "write"
    /\ key = KeyChar(97)
    /\ dirty = "resize"

\* C14: the renderer is invoked exactly once after each PTY read that
\* returns N > 0 bytes, after all N bytes were fed, and exactly once after
\* each border-style toggle, and at no other point.
C14_RenderOnlyOnDataOrToggle ==
    [][/\ (pc = "read" /\ pc' # "read") =>
            IF rd'.tag = "Ok" /\ rd'.n > 0
            THEN renders' = 1 /\ fed' = rd'.n /\ frame' # NoFrame
            ELSE renders' = 0 /\ frame' = NoFrame
       /\ (pc = "getch" /\ pc' # "getch") =>
            IF key' = KeyChar(CtrlD)
            THEN renders' = renders + 1 /\ frame' # NoFrame
            ELSE renders' = renders /\ frame' = NoFrame
       /\ (pc = "write" \/ Terminated) =>
            renders' = renders /\ frame' = frame]_vars

C14_Witness ==
    /\ pc = "read"
    /\ key = KeyChar(CtrlD)
    /\ renders = 2

\* C15: a PTY read that fails with interrupted or would-block leaves the
\* grid, the border style, the geometry and the exit reason unchanged,
\* triggers no render, and the same iteration goes on to the keyboard read.
C15_TransientReadIgnored ==
    [][(pc = "read" /\ rd'.tag = "Err"
            /\ rd'.kind \in {"Interrupted", "WouldBlock"}) =>
        /\ term' = term
        /\ cur_border_char' = cur_border_char
        /\ ptySize' = ptySize
        /\ exit_reason' = exit_reason /\ exit_reason' = <<>>
        /\ renders' = 0 /\ frame' = NoFrame
        /\ dirty' = dirty
        /\ pc' = "getch"]_vars

C15_Witness ==
    /\ pc = "getch"
    /\ rd = IoErr("Interrupted", 0)
    /\ dirty = "resize"

\* C16: the exit reason is empty in every state in which the loop is
\* running and is set at most once; once it is set no PTY read, PTY write,
\* keyboard read, resize or render occurs.
C16_ReasonSetOnceAtExit ==
    /\ [](Running => exit_reason = <<>>)
    /\ [][exit_reason # <<>> =>
            /\ exit_reason' = exit_reason
            /\ Terminated /\ pc' # "read" /\ pc' # "getch" /\ pc' # "write"
            /\ rd' = rd /\ wr' = wr /\ sent' = sent /\ key' = key
            /\ term' = term /\ ptySize' = ptySize
            /\ termRecv' = termRecv /\ ptyRecv' = ptyRecv
            /\ frame' = frame /\ renders' = renders]_vars

C16_Witness ==
    /\ pc = "exited"
    /\ exit_reason = <<"couldn't read from PTY">>
    /\ rd = IoErr("BrokenPipe", 11)

\* C17: each iteration makes exactly one PTY read attempt followed by at
\* most one keyboard event: a keyboard event is consumed only after the read
\* attempt of its iteration, which the next keyboard event cannot use again.
C17_OneReadThenAtMostOneKey ==
    /\ [](pc = "getch" => rd # NoIo /\ key = NoKey)
    /\ [](pc \in {"read", "write"} => rd = NoIo)
    /\ [][/\ rd' # rd =>
                \/ pc = "read" /\ rd = NoIo /\ pc' \in {"getch", "endwin"}
                \/ pc = "getch" /\ rd' = NoIo
          /\ (key' # NoKey /\ key' # key) =>
                pc = "getch" /\ rd # NoIo /\ key = NoKey /\ rd' = NoIo]_vars

C17_Witness ==
    /\ pc = "write"
    /\ key = KeyChar(8364)
    /\ rd = NoIo
    /\ ptyAvail > 0

\* C18: a PTY write call that accepts zero bytes, or that fails with an
\* error other than interrupted or would-block, terminates the loop with a
\* non-empty exit reason and no further write is attempted; a write that
\* fails with interrupted or would-block is retried in the same iteration
\* with the count of bytes sent unchanged.
C18_WriteFailureHandling ==
    /\ [](wr = IoOk(0) =>
            Terminated /\ exit_reason = <<"PTY is unable to accept bytes">>)
    /\ []((wr.tag = "Err" /\ wr.kind \notin {"Interrupted", "WouldBlock"}) =>
            Terminated /\ exit_reason # <<>>)
    /\ []((wr.tag = "Err" /\ wr.kind \in {"Interrupted", "WouldBlock"}) =>
            pc = "write" /\ i < Len(bytes) /\ exit_reason = <<>>)
    /\ [][/\ (wr'.tag = "Err" /\ wr'.kind \in {"Interrupted", "WouldBlock"}) =>
                i' = i /\ sent' = sent /\ key' = key /\ rd' = rd
          /\ Terminated => wr' = wr /\ sent' = sent /\ i' = i]_vars

C18_Witness ==
    /\ pc = "exited"
    /\ wr = IoOk(0)
    /\ i > 0

\* C19: a keyboard event that is neither a character nor a resize
\* terminates the loop with an exit reason naming the input, without writing
\* to the PTY, changing the border style or the geometry, or rendering.
C19_OtherInputEndsLoop ==
    [][(pc = "getch" /\ key'.t = "KeyOther") =>
        /\ pc' = "endwin"
        /\ exit_reason' = <<IF key'.c = 1 THEN "unhandled input: KeyDown"
                            ELSE "unhandled input: KeyF1">>
        /\ sent' = <<>> /\ wr' = NoIo /\ i' = 0
        /\ cur_border_char' = cur_border_char
        /\ ptySize' = ptySize /\ term' = term
        /\ termRecv' = <<>> /\ ptyRecv' = <<>>
        /\ frame' = NoFrame /\ renders' = renders]_vars

C19_Witness ==
    /\ pc = "exited"
    /\ key = KeyOther(2)
    /\ out = <<<<"process exited: ", "unhandled input: KeyF1">>>>

\* C20: the pairs registered at startup are the pairs 0..6, each on a black
\* background; the pair the renderer applies to a cell of a named colour is
\* one of them, and for every base colour other than white and black the
\* applied pair's registered foreground is that base colour.
C20_AppliedPairRegistered ==
    /\ Len(pairs) <= 7
    /\ \A k \in DOMAIN pairs : pairs[k].bg = COLOR_BLACK
    /\ applied # <<>> =>
        /\ DOMAIN pairs = 1..7
        /\ applied[1] \in 0..6
        /\ NameColour(ink) \notin {COLOR_WHITE, COLOR_BLACK} =>
            pairs[applied[1] + 1].fg = NameColour(ink)

C20_Witness == applied = <<6>> /\ ink = "DimYellow"

====
